---- MODULE Spec2Model ----
(***************************************************************************)
(* Model of the forecast request of the air-quality dashboard:             *)
(* forecasting.render_forecast and data_service.fetch_pollution_history.   *)
(* Instants are epoch seconds; a concentration is a non-negative integer;  *)
(* a bucket mean is a reduced fraction <<num, den>>; NaN (pandas' missing  *)
(* marker) is the empty tuple; Python's None is the empty tuple as well.   *)
(***************************************************************************)
EXTENDS Integers, Sequences, FiniteSets

\* ---- bounds of the model ----
MaxTick == 4          \* observation instants are 0, 1800, ..., MaxTick * 1800
MaxObs == 2           \* records in one history response
MaxHorizon == 2       \* FORECAST_HOURS ranges over 1..MaxHorizon
MaxClock == 3         \* the clock of the shared fetch cache advances MaxClock times
MaxThreads == 2       \* background threads one session may create
MaxQueue == 1         \* items stream_data_queue may hold
MaxMails == 3         \* alert e-mails one session gets accepted

\* ---- constants of the program ----
HOUR == 3600                          \* '1H' / pd.Timedelta(hours=1)
MINUTE == 60                          \* resolution of '%Y-%m-%d %H:%M'
SEASON == 24                          \* seasonal_order=(1, 1, 1, 24)
POLLUTANTS == <<"o3", "so2">>         \* the part of config.POLLUTANTS modelled
TTL == 600                            \* @st.cache_data(ttl=600)
MODEL_HISTORY_HOURS == 168            \* config.MODEL_HISTORY_HOURS
MAX_LOGIN_ATTEMPTS == 3               \* config.MAX_LOGIN_ATTEMPTS
PASSWORD == "123"                     \* config.PASSWORD
ROLES == <<"Admin", "Viewer">>        \* the part of config.ROLES modelled

NaN == <<>>
None == <<>>

\* Candidate configurations of config.HAZARD_THRESHOLDS: the shipped values
\* of the modelled pollutants, one without an entry for o3, one with 0 for o3.
ThresholdConfigs ==
  { [p \in {"o3", "so2"} |-> IF p = "o3" THEN 100 ELSE 20],
    [p \in {"so2"} |-> 20],
    [p \in {"o3", "so2"} |-> IF p = "o3" THEN 0 ELSE 20] }

ApiKeys == {"", "key"}
Instants == {k * 1800 : k \in 0..MaxTick}
Values == {10, 20}
MeanValues == {99, 100, 101}          \* point forecasts the fitted model may give
ConfHalfWidths == {1, 2}              \* z * standard error of a forecast step
FitCauses == {"LinAlgError", "ValueError"}

VARIABLES
  API_KEY,            \* config.API_KEY
  HAZARD_THRESHOLDS,  \* config.HAZARD_THRESHOLDS
  FORECAST_HOURS,     \* config.FORECAST_HOURS
  pollutant,          \* selectbox "fc_pollutant"
  pc,                 \* position of the request inside render_forecast
  df,                 \* result of fetch_pollution_history
  series,             \* the prepared hourly series
  resampled,          \* line 36 was executed
  fitCalls,           \* number of SARIMAX(...).fit() attempts
  res,                \* "none" or "fitted"
  fitError,           \* the exception bound to `e` at line 50, or "none"
  forecastCalls,      \* number of res.get_forecast() calls
  fc_index, fc_mean, conf,
  out,                \* what the request showed on the page, in order
  exc                 \* exception that left render_forecast, or "none"

\* two forecast requests of different sessions and the process-wide cache of
\* fetch_pollution_history
VARIABLES
  now,                \* wall clock, seconds
  cache,              \* st.cache_data entries of fetch_pollution_history, by key
  req                 \* per request: its selections, position, locals and page

cacheVars == <<now, cache, req>>

\* one browser session of the application: app.main, auth.show_login and the
\* streaming thread of streaming.py
VARIABLES
  session_state,      \* st.session_state without the queue, a dict by key
  stream_data_queue,  \* st.session_state.stream_data_queue, oldest item first
  threads,            \* the threads start_streaming_data created, by number
  script,             \* "idle", or "loop": the run is inside the loop of app.py:137
  view,               \* what the last run of main() put on the page
  entered             \* what the last run was given: a Login press, or the update mode

VARIABLES
  mails               \* the alert e-mails the SMTP server accepted, oldest first

alertVars == <<mails>>

appVars == <<session_state, stream_data_queue, threads, script, view, entered, mails>>

reqVars == <<API_KEY, HAZARD_THRESHOLDS, FORECAST_HOURS, pollutant, pc, df, series,
             resampled, fitCalls, res, fitError, forecastCalls, fc_index, fc_mean, conf,
             out, exc>>

vars == <<API_KEY, HAZARD_THRESHOLDS, FORECAST_HOURS, pollutant, pc, df, series,
          resampled, fitCalls, res, fitError, forecastCalls, fc_index, fc_mean, conf,
          out, exc, now, cache, req,
          session_state, stream_data_queue, threads, script, view, entered, mails>>

config == <<API_KEY, HAZARD_THRESHOLDS, FORECAST_HOURS, pollutant>>

\* ---- helpers ----
Range(s) == {s[i] : i \in 1..Len(s)}

BoundedSubsets(S, k) ==
  UNION { { {f[i] : i \in 1..n} : f \in [1..n -> S] } : n \in 0..k }

PolRank(p) == CHOOSE i \in 1..Len(POLLUTANTS) : POLLUTANTS[i] = p

\* total order on records used to lay a record set out as a frame sorted by
\* its datetime index
RecBefore(a, b) ==
  \/ a.datetime < b.datetime
  \/ a.datetime = b.datetime /\ PolRank(a.pollutant) < PolRank(b.pollutant)
  \/ a.datetime = b.datetime /\ a.pollutant = b.pollutant /\ a.value < b.value

RECURSIVE sort_index(_)
sort_index(recs) ==
  IF recs = {} THEN <<>>
  ELSE LET m == CHOOSE r \in recs : \A o \in recs \ {r} : RecBefore(r, o)
       IN <<m>> \o sort_index(recs \ {m})

RECURSIVE GCD(_, _)
GCD(a, b) == IF b = 0 THEN a ELSE GCD(b, a % b)

RECURSIVE SumSeq(_)
SumSeq(s) == IF s = <<>> THEN 0 ELSE Head(s) + SumSeq(Tail(s))

\* Series.mean() of one bucket: NaN for an empty bucket
BucketMean(vals) ==
  IF vals = <<>> THEN NaN
  ELSE LET n == SumSeq(vals)
           d == Len(vals)
           g == GCD(n, d)
       IN <<n \div g, d \div g>>

\* variant of IsEmpty: the emptiness test of line 30 is missing
IsEmpty_Never(frame) == FALSE

\* DataFrame.empty
IsEmpty(frame) == frame = <<>>

Floor1H(t) == (t \div HOUR) * HOUR

\* variant of SelectPollutant: the pollutant filter is missing
SelectPollutant_All(frame, p) ==
  [i \in 1..Len(frame) |-> [t |-> frame[i].datetime, v |-> frame[i].value]]

\* df[df['pollutant'] == pollutant]['value']
SelectPollutant(frame, p) ==
  LET IsP(r) == r.pollutant = p
      sel == SelectSeq(frame, IsP)
  IN [i \in 1..Len(sel) |-> [t |-> sel[i].datetime, v |-> sel[i].value]]

\* variant of Resample1HMean: groupby(hour).mean(), hours without a record
\* get no bucket
Resample1HMean_OnlyObserved(s) ==
  LET hours == {Floor1H(s[i].t) : i \in 1..Len(s)}
      InBucket(b) == LET In(x) == Floor1H(x.t) = b
                         hit == SelectSeq(s, In)
                     IN [i \in 1..Len(hit) |-> hit[i].v]
      Rank(h) == Cardinality({g \in hours : g <= h})
  IN [i \in 1..Cardinality(hours) |->
        LET h == CHOOSE g \in hours : Rank(g) = i
        IN [t |-> h, v |-> BucketMean(InBucket(h))]]

\* .resample('1H').mean(): one bucket per hour from the first to the last record
Resample1HMean(s) ==
  IF s = <<>> THEN <<>>
  ELSE LET first == Floor1H(s[1].t)
           last == Floor1H(s[Len(s)].t)
           n == ((last - first) \div HOUR) + 1
           InBucket(b) == LET In(x) == Floor1H(x.t) = b
                              hit == SelectSeq(s, In)
                          IN [i \in 1..Len(hit) |-> hit[i].v]
       IN [i \in 1..n |-> [t |-> first + (i - 1) * HOUR,
                           v |-> BucketMean(InBucket(first + (i - 1) * HOUR))]]

\* variant of Ffill: .bfill(), a missing value takes the next value present
Ffill_Bfill(s) ==
  LET f[i \in 1..(Len(s) + 1)] ==
        IF i = Len(s) + 1 THEN NaN
        ELSE IF s[i].v # NaN THEN s[i].v ELSE f[i + 1]
  IN [i \in 1..Len(s) |-> [t |-> s[i].t, v |-> f[i]]]

\* .ffill(): a missing value takes the last earlier value that is present
Ffill(s) ==
  LET f[i \in 0..Len(s)] ==
        IF i = 0 THEN NaN
        ELSE IF s[i].v # NaN THEN s[i].v ELSE f[i - 1]
  IN [i \in 1..Len(s) |-> [t |-> s[i].t, v |-> f[i]]]

PrepareSeries(frame, p) == Ffill(Resample1HMean(SelectPollutant(frame, p)))

\* variant of date_range: the index starts one step early
date_range_from_last(start, periods) == [i \in 1..periods |-> start + (i - 2) * HOUR]

\* pd.date_range(start=..., periods=..., freq='1H')
date_range(start, periods) == [i \in 1..periods |-> start + (i - 1) * HOUR]

\* t.strftime('%Y-%m-%d %H:%M'): the instant cut to whole minutes
Strftime(t) == (t \div MINUTE) * MINUTE

\* variant of ThresholdGet: .get(pollutant, 100), a default for a missing entry
ThresholdGet_WithDefault(th, p) == IF p \in DOMAIN th THEN <<th[p]>> ELSE <<100>>

\* HAZARD_THRESHOLDS.get(pollutant)
ThresholdGet(th, p) == IF p \in DOMAIN th THEN <<th[p]>> ELSE None

\* Python truth value of `threshold` (None and 0 are false)
Truthy(threshold) == threshold # None /\ threshold[1] # 0

Msg(kind, text, times, arg) == [kind |-> kind, text |-> text, times |-> times, arg |-> arg]

\* lines 84-93: the hazard banner
HazardBanner(th, p, index, mean) ==
  LET threshold == ThresholdGet(th, p)
  IN IF Truthy(threshold)
     THEN LET Over(i) == mean[i] > threshold[1]
              hits == SelectSeq([i \in 1..Len(mean) |-> i], Over)
          IN IF hits # <<>>
             THEN Msg("error", "exceeds",
                      [k \in 1..Len(hits) |-> Strftime(index[hits[k]])], threshold)
             ELSE Msg("success", "no exceed", <<>>, threshold)
     ELSE Msg("info", "no threshold defined", <<>>, None)

\* lines 74-78: the forecast table, one row per instant of the index
DfFc(index, mean, ci) ==
  [index |-> index,
   Forecast |-> mean,
   Lower |-> [i \in 1..Len(ci) |-> ci[i][1]],
   Upper |-> [i \in 1..Len(ci) |-> ci[i][2]]]

\* variant of HazardOfFrame: the 'Upper CI' column is compared with the threshold
HazardOfFrame_Upper(th, p, df_fc) == HazardBanner(th, p, df_fc.index, df_fc.Upper)

\* lines 84-93 on the table: the 'Forecast' column is compared with the threshold
HazardOfFrame(th, p, df_fc) == HazardBanner(th, p, df_fc.index, df_fc.Forecast)

\* ---- the request ----
Init ==
  /\ API_KEY \in ApiKeys
  /\ HAZARD_THRESHOLDS \in ThresholdConfigs
  /\ FORECAST_HOURS \in 1..MaxHorizon
  /\ pollutant \in Range(POLLUTANTS)
  /\ pc = "start"
  /\ df = <<>>
  /\ series = <<>>
  /\ resampled = FALSE
  /\ fitCalls = 0
  /\ res = "none"
  /\ fitError = "none"
  /\ forecastCalls = 0
  /\ fc_index = <<>>
  /\ fc_mean = <<>>
  /\ conf = <<>>
  /\ out = <<>>
  /\ exc = "none"
  /\ now = 0
  /\ cache = <<>>
  /\ req = <<>>
  /\ session_state = <<>>
  /\ stream_data_queue = <<>>
  /\ threads = <<>>
  /\ script = "idle"
  /\ view = "none"
  /\ entered = <<>>
  /\ mails = <<>>

\* data_service lines 46-48: no key, an error banner and an empty frame
FetchMissingKey ==
  /\ pc = "start"
  /\ API_KEY = ""
  /\ df' = <<>>
  /\ out' = Append(out, Msg("error", "API key is missing", <<>>, None))
  /\ pc' = "fetched"
  /\ UNCHANGED <<config, series, resampled, fitCalls, res, fitError, forecastCalls,
                 fc_index, fc_mean, conf, exc>>
  /\ UNCHANGED <<cacheVars, appVars>>

\* data_service lines 54-55: requests.get or raise_for_status raises; nothing
\* in fetch_pollution_history or render_forecast catches it
FetchRaises ==
  /\ pc = "start"
  /\ API_KEY # ""
  /\ \E e \in {"ConnectionError", "Timeout", "HTTPError"} : exc' = e
  /\ pc' = "raised"
  /\ UNCHANGED <<config, df, series, resampled, fitCalls, res, fitError, forecastCalls,
                 fc_index, fc_mean, conf, out>>
  /\ UNCHANGED <<cacheVars, appVars>>

\* data_service lines 56-64: the records of the response, indexed and sorted
FetchOk ==
  /\ pc = "start"
  /\ API_KEY # ""
  /\ \E recs \in BoundedSubsets([datetime : Instants, pollutant : Range(POLLUTANTS),
                                 value : Values], MaxObs) :
       df' = sort_index(recs)
  /\ pc' = "fetched"
  /\ UNCHANGED <<config, series, resampled, fitCalls, res, fitError, forecastCalls,
                 fc_index, fc_mean, conf, out, exc>>
  /\ UNCHANGED <<cacheVars, appVars>>

\* lines 30-32
DataUnavailable ==
  /\ pc = "fetched"
  /\ IsEmpty(df)
  /\ out' = Append(out, Msg("error", "Insufficient historical data", <<>>, None))
  /\ pc' = "done"
  /\ UNCHANGED <<config, df, series, resampled, fitCalls, res, fitError, forecastCalls,
                 fc_index, fc_mean, conf, exc>>
  /\ UNCHANGED <<cacheVars, appVars>>

\* lines 35-38
Prepare ==
  /\ pc = "fetched"
  /\ ~IsEmpty(df)
  /\ series' = PrepareSeries(df, pollutant)
  /\ resampled' = TRUE
  /\ out' = Append(out, Msg("write", "Training SARIMA model", <<>>, None))
  /\ pc' = "prepared"
  /\ UNCHANGED <<config, df, fitCalls, res, fitError, forecastCalls, fc_index, fc_mean, conf, exc>>
  /\ UNCHANGED <<cacheVars, appVars>>

\* variant of FitRaises: after showing the cause the fit is tried again
FitRaises_Retry ==
  /\ pc = "prepared"
  /\ fitCalls < 2
  /\ fitCalls' = fitCalls + 1
  /\ \E e \in FitCauses :
       /\ fitError' = e
       /\ out' = Append(out, Msg("error", "Model fitting error", <<>>, <<e>>))
  /\ pc' = "prepared"
  /\ UNCHANGED <<config, df, series, resampled, res, forecastCalls,
                 fc_index, fc_mean, conf, exc>>
  /\ UNCHANGED <<cacheVars, appVars>>

\* lines 41-52: construction or fit raises, the cause is shown, the request ends
FitRaises ==
  /\ pc = "prepared"
  /\ fitCalls' = fitCalls + 1
  /\ \E e \in FitCauses :
       /\ fitError' = e
       /\ out' = Append(out, Msg("error", "Model fitting error", <<>>, <<e>>))
  /\ pc' = "done"
  /\ UNCHANGED <<config, df, series, resampled, res, forecastCalls,
                 fc_index, fc_mean, conf, exc>>
  /\ UNCHANGED <<cacheVars, appVars>>

\* lines 41-49: the fit returns a result
FitOk ==
  /\ pc = "prepared"
  /\ fitCalls' = fitCalls + 1
  /\ res' = "fitted"
  /\ pc' = "fitted"
  /\ UNCHANGED <<config, df, series, resampled, fitError, forecastCalls,
                 fc_index, fc_mean, conf, out, exc>>
  /\ UNCHANGED <<cacheVars, appVars>>

\* line 55 raises; it is outside the try block of lines 41-52
ForecastRaises ==
  /\ pc = "fitted"
  /\ forecastCalls' = forecastCalls + 1
  /\ exc' = "ForecastError"
  /\ pc' = "raised"
  /\ UNCHANGED <<config, df, series, resampled, fitCalls, res, fitError,
                 fc_index, fc_mean, conf, out>>
  /\ UNCHANGED <<cacheVars, appVars>>

\* line 56 on an empty series: series.index[-1] raises IndexError
ForecastIndexError ==
  /\ pc = "fitted"
  /\ series = <<>>
  /\ forecastCalls' = forecastCalls + 1
  /\ exc' = "IndexError"
  /\ pc' = "raised"
  /\ UNCHANGED <<config, df, series, resampled, fitCalls, res, fitError,
                 fc_index, fc_mean, conf, out>>
  /\ UNCHANGED <<cacheVars, appVars>>

\* lines 55-59
ForecastOk ==
  /\ pc = "fitted"
  /\ series # <<>>
  /\ forecastCalls' = forecastCalls + 1
  /\ fc_index' = date_range(series[Len(series)].t + HOUR, FORECAST_HOURS)
  /\ \E m \in [1..FORECAST_HOURS -> MeanValues], w \in ConfHalfWidths :
       /\ fc_mean' = m
       /\ conf' = [i \in 1..FORECAST_HOURS |-> <<m[i] - w, m[i] + w>>]
  /\ pc' = "forecasted"
  /\ UNCHANGED <<config, df, series, resampled, fitCalls, res, fitError, out, exc>>
  /\ UNCHANGED <<cacheVars, appVars>>

\* lines 61-93: chart, table, hazard banner
Render ==
  /\ pc = "forecasted"
  /\ out' = out \o << Msg("plotly_chart", "", <<>>, None),
                      Msg("dataframe", "", fc_index, None),
                      HazardOfFrame(HAZARD_THRESHOLDS, pollutant,
                                    DfFc(fc_index, fc_mean, conf)) >>
  /\ pc' = "done"
  /\ UNCHANGED <<config, df, series, resampled, fitCalls, res, fitError, forecastCalls,
                 fc_index, fc_mean, conf, exc>>
  /\ UNCHANGED <<cacheVars, appVars>>

Next ==
  \/ FetchMissingKey
  \/ FetchRaises
  \/ FetchOk
  \/ DataUnavailable
  \/ Prepare
  \/ FitRaises
  \/ FitOk
  \/ ForecastRaises
  \/ ForecastIndexError
  \/ ForecastOk
  \/ Render

Spec == Init /\ [][Next]_vars

\* ---- two requests and the cache of fetch_pollution_history ----
\* (latitude, longitude) in units of 1e-4 degree
FACILITIES_COORD ==
  [f \in {"Refinery A", "Compressor Station B"} |->
     IF f = "Refinery A" THEN <<511414, 714861>> ELSE <<471001, 519265>>]

Requests == {1, 2}
Tick == TTL \div 2
ClockStart == HOUR - Tick
ShippedThresholds == [p \in {"o3", "so2"} |-> IF p = "o3" THEN 100 ELSE 20]

\* the remote history of a facility as the source would answer at instant t:
\* one entry per full hour the station has reported, every pollutant in it
Provider(fac, t) ==
  LET reported == IF fac = "Refinery A" THEN {0, HOUR} ELSE {HOUR}
      hours == {h \in reported : h <= t}
  IN sort_index({ [datetime |-> h, pollutant |-> p,
                   value |-> IF h = 0 THEN 10 ELSE 20] :
                  h \in hours, p \in Range(POLLUTANTS) })

\* variant of CacheKey: the key leaves the location out
CacheKey_HoursOnly(fac) == <<0, 0, MODEL_HISTORY_HOURS>>

\* st.cache_data keys an entry by the arguments (lat, lon, hours)
CacheKey(fac) == <<FACILITIES_COORD[fac][1], FACILITIES_COORD[fac][2], MODEL_HISTORY_HOURS>>

CacheKeys == {CacheKey(f) : f \in DOMAIN FACILITIES_COORD} \cup {CacheKey_HoursOnly("")}

\* an entry younger than the time-to-live is served instead of a call
CacheValid(k) == cache[k] # None /\ now - cache[k][2] < TTL

InitCache ==
  /\ API_KEY = "key"
  /\ HAZARD_THRESHOLDS = ShippedThresholds
  /\ FORECAST_HOURS = 1
  /\ pollutant = "o3"
  /\ pc = "start"
  /\ df = <<>>
  /\ series = <<>>
  /\ resampled = FALSE
  /\ fitCalls = 0
  /\ res = "none"
  /\ fitError = "none"
  /\ forecastCalls = 0
  /\ fc_index = <<>>
  /\ fc_mean = <<>>
  /\ conf = <<>>
  /\ out = <<>>
  /\ exc = "none"
  /\ now = ClockStart
  /\ cache = [k \in CacheKeys |-> None]
  /\ req \in [Requests -> [fac : DOMAIN FACILITIES_COORD, pol : Range(POLLUTANTS),
                           pc : {"start"}, fetchedAt : {0}, df : {<<>>},
                           series : {<<>>}, fc_index : {<<>>}, fc_mean : {<<>>},
                           out : {<<>>}, exc : {"none"}]]
  /\ session_state = <<>>
  /\ stream_data_queue = <<>>
  /\ threads = <<>>
  /\ script = "idle"
  /\ view = "none"
  /\ entered = <<>>
  /\ mails = <<>>

\* time passes
ClockTick ==
  /\ now < ClockStart + MaxClock * Tick
  /\ now' = now + Tick
  /\ UNCHANGED <<cache, req, reqVars, appVars>>

\* data_service line 33: the call is answered from the cache
CacheHit(r) ==
  /\ req[r].pc = "start"
  /\ CacheValid(CacheKey(req[r].fac))
  /\ req' = [req EXCEPT ![r].pc = "fetched", ![r].fetchedAt = now,
                        ![r].df = cache[CacheKey(req[r].fac)][1]]
  /\ UNCHANGED <<now, cache, reqVars, appVars>>

\* data_service lines 33-64: no valid entry, the remote answer is stored
CacheMiss(r) ==
  /\ req[r].pc = "start"
  /\ ~CacheValid(CacheKey(req[r].fac))
  /\ req' = [req EXCEPT ![r].pc = "fetched", ![r].fetchedAt = now,
                        ![r].df = Provider(req[r].fac, now)]
  /\ cache' = [cache EXCEPT ![CacheKey(req[r].fac)] = <<Provider(req[r].fac, now), now>>]
  /\ UNCHANGED <<now, reqVars, appVars>>

\* data_service lines 54-55: the remote call raises, nothing is stored
CacheMissRaises(r) ==
  /\ req[r].pc = "start"
  /\ ~CacheValid(CacheKey(req[r].fac))
  /\ req' = [req EXCEPT ![r].pc = "raised", ![r].fetchedAt = now, ![r].exc = "HTTPError"]
  /\ UNCHANGED <<now, cache, reqVars, appVars>>

\* forecasting lines 30-32
RequestUnavailable(r) ==
  /\ req[r].pc = "fetched"
  /\ IsEmpty(req[r].df)
  /\ req' = [req EXCEPT ![r].pc = "done",
               ![r].out = <<Msg("error", "Insufficient historical data", <<>>, None)>>]
  /\ UNCHANGED <<now, cache, reqVars, appVars>>

\* forecasting lines 35-52, the fit raising; the steps after the fetch touch
\* only locals of the call and are taken in one step
RequestFitRaises(r) ==
  /\ req[r].pc = "fetched"
  /\ ~IsEmpty(req[r].df)
  /\ \E e \in FitCauses :
       req' = [req EXCEPT ![r].pc = "done",
                 ![r].series = PrepareSeries(req[r].df, req[r].pol),
                 ![r].out = << Msg("write", "Training SARIMA model", <<>>, None),
                               Msg("error", "Model fitting error", <<>>, <<e>>) >>]
  /\ UNCHANGED <<now, cache, reqVars, appVars>>

\* forecasting lines 35-93, fit and forecast returning
RequestRender(r) ==
  /\ req[r].pc = "fetched"
  /\ ~IsEmpty(req[r].df)
  /\ LET s == PrepareSeries(req[r].df, req[r].pol)
     IN /\ s # <<>>
        /\ \E m \in [1..FORECAST_HOURS -> MeanValues], w \in ConfHalfWidths :
             LET idx == date_range(s[Len(s)].t + HOUR, FORECAST_HOURS)
                 ci == [i \in 1..FORECAST_HOURS |-> <<m[i] - w, m[i] + w>>]
             IN req' = [req EXCEPT ![r].pc = "done", ![r].series = s,
                          ![r].fc_index = idx, ![r].fc_mean = m,
                          ![r].out = << Msg("write", "Training SARIMA model", <<>>, None),
                                        Msg("plotly_chart", "", <<>>, None),
                                        Msg("dataframe", "", idx, None),
                                        HazardOfFrame(HAZARD_THRESHOLDS, req[r].pol,
                                                      DfFc(idx, m, ci)) >>]
  /\ UNCHANGED <<now, cache, reqVars, appVars>>

NextCache ==
  \/ ClockTick
  \/ \E r \in Requests : CacheHit(r)
  \/ \E r \in Requests : CacheMiss(r)
  \/ \E r \in Requests : CacheMissRaises(r)
  \/ \E r \in Requests : RequestUnavailable(r)
  \/ \E r \in Requests : RequestFitRaises(r)
  \/ \E r \in Requests : RequestRender(r)

SpecCache == InitCache /\ [][NextCache]_vars

\* ---- one session: login, pages and the streaming thread ----
\* config.initialize_session_state: the defaults (the queue is a variable of its own)
DefaultStates ==
  [logged_in |-> FALSE, login_error |-> FALSE, role |-> "None", login_attempts |-> 0,
   streaming_active |-> FALSE, selected_facility |-> "None"]

\* a key keeps its value, a missing key gets its default
initialize_session_state(ss) ==
  [k \in (DOMAIN ss) \cup (DOMAIN DefaultStates) |->
     IF k \in DOMAIN ss THEN ss[k] ELSE DefaultStates[k]]

\* st.session_state[k] = v
SetKey(ss, k, v) == [x \in (DOMAIN ss) \cup {k} |-> IF x = k THEN v ELSE ss[x]]

\* st.session_state.pop(k, None) for every k of ks
PopKeys(ss, ks) == [x \in (DOMAIN ss) \ ks |-> ss[x]]

Passwords == {PASSWORD, "wrong"}
Facilities == DOMAIN FACILITIES_COORD

\* the choices of the "Data Update Mode" radio of the sidebar
Modes == {"Manual", "Real-time Streaming", "Page Refresh"}

\* variant of show_login: a failed attempt is not counted
show_login_NoCount(ss, roleSel, pwd, click) ==
  IF MAX_LOGIN_ATTEMPTS - ss.login_attempts <= 0 THEN ss
  ELSE IF ~click THEN ss
  ELSE IF ss.login_attempts >= MAX_LOGIN_ATTEMPTS THEN ss
  ELSE IF pwd = PASSWORD
       THEN [ss EXCEPT !.logged_in = TRUE, !.login_error = FALSE,
                       !.role = roleSel, !.login_attempts = 0]
       ELSE [ss EXCEPT !.login_error = TRUE]

\* variant of show_login: a successful login leaves the counter as it is
show_login_NoReset(ss, roleSel, pwd, click) ==
  IF MAX_LOGIN_ATTEMPTS - ss.login_attempts <= 0 THEN ss
  ELSE IF ~click THEN ss
  ELSE IF ss.login_attempts >= MAX_LOGIN_ATTEMPTS THEN ss
  ELSE IF pwd = PASSWORD
       THEN [ss EXCEPT !.logged_in = TRUE, !.login_error = FALSE, !.role = roleSel]
       ELSE [ss EXCEPT !.login_error = TRUE, !.login_attempts = @ + 1]

\* auth.show_login: the session state one run of the login page leaves
show_login(ss, roleSel, pwd, click) ==
  IF MAX_LOGIN_ATTEMPTS - ss.login_attempts <= 0 THEN ss
  ELSE IF ~click THEN ss
  ELSE IF ss.login_attempts >= MAX_LOGIN_ATTEMPTS THEN ss
  ELSE IF pwd = PASSWORD
       THEN [ss EXCEPT !.logged_in = TRUE, !.login_error = FALSE,
                       !.role = roleSel, !.login_attempts = 0]
       ELSE [ss EXCEPT !.login_error = TRUE, !.login_attempts = @ + 1]

\* what show_login puts on the page
LoginView(ss) == IF MAX_LOGIN_ATTEMPTS - ss.login_attempts <= 0 THEN "locked" ELSE "login"

\* streaming.stop_streaming_data
stop_streaming_data(ss) == SetKey(ss, "streaming_active", FALSE)

Born == {t \in 1..MaxThreads : threads[t].pc # "unborn"}

InitApp ==
  /\ API_KEY = "key"
  /\ HAZARD_THRESHOLDS = ShippedThresholds
  /\ FORECAST_HOURS = 1
  /\ pollutant = "o3"
  /\ pc = "start"
  /\ df = <<>>
  /\ series = <<>>
  /\ resampled = FALSE
  /\ fitCalls = 0
  /\ res = "none"
  /\ fitError = "none"
  /\ forecastCalls = 0
  /\ fc_index = <<>>
  /\ fc_mean = <<>>
  /\ conf = <<>>
  /\ out = <<>>
  /\ exc = "none"
  /\ now = 0
  /\ cache = <<>>
  /\ req = <<>>
  /\ session_state = <<>>
  /\ stream_data_queue = <<>>
  /\ threads = [t \in 1..MaxThreads |-> [pc |-> "unborn", fac |-> "None"]]
  /\ script = "idle"
  /\ view = "none"
  /\ entered = <<>>
  /\ mails = <<>>

\* app.py lines 181-185 and auth.show_login, no button pressed
LoginPageRun ==
  LET ss == initialize_session_state(session_state)
  IN /\ ~ss.logged_in
     /\ \E roleSel \in Range(ROLES), pwd \in Passwords :
          session_state' = show_login(ss, roleSel, pwd, FALSE)
     /\ entered' = <<>>
     /\ view' = LoginView(ss)
     /\ script' = "idle"
     /\ UNCHANGED <<stream_data_queue, threads, reqVars, cacheVars, alertVars>>

\* app.py lines 181-185 and auth.show_login, the run a press of Login starts
LoginClickRun ==
  LET ss == initialize_session_state(session_state)
  IN /\ ~ss.logged_in
     /\ \E roleSel \in Range(ROLES), pwd \in Passwords :
          /\ session_state' = show_login(ss, roleSel, pwd, TRUE)
          /\ entered' = <<roleSel, pwd, TRUE>>
     /\ view' = LoginView(ss)
     /\ script' = "idle"
     /\ UNCHANGED <<stream_data_queue, threads, reqVars, cacheVars, alertVars>>

\* app.py lines 35-40: Logout stops streaming, drops four keys and reruns
LogoutRun ==
  LET ss == initialize_session_state(session_state)
  IN /\ ss.logged_in
     /\ session_state' = PopKeys(stop_streaming_data(ss),
                                 {"logged_in", "role", "login_attempts", "streaming_active"})
     /\ view' = "none"
     /\ script' = "idle"
     /\ entered' = <<>>
     /\ UNCHANGED <<stream_data_queue, threads, reqVars, cacheVars, alertVars>>

\* app.py lines 207-214: the Forecast and AI Insights pages
PageRun ==
  LET ss == initialize_session_state(session_state)
  IN /\ ss.logged_in
     /\ \E page \in {"Forecast", "AI Insights"} : view' = page
     /\ session_state' = stop_streaming_data(ss)
     /\ script' = "idle"
     /\ entered' = <<>>
     /\ UNCHANGED <<stream_data_queue, threads, reqVars, cacheVars, alertVars>>

\* app.py lines 86-96 and 192: the first fetch of the dashboard raises,
\* render_dashboard returns None and unpacking it ends the run
DashboardFetchFails ==
  LET ss == initialize_session_state(session_state)
  IN /\ ss.logged_in
     /\ \E fac \in Facilities : session_state' = SetKey(ss, "selected_facility", fac)
     /\ view' = "Dashboard"
     /\ script' = "idle"
     /\ \E mode \in Modes : entered' = <<mode>>
     /\ UNCHANGED <<stream_data_queue, threads, reqVars, cacheVars, alertVars>>

\* app.py lines 198-205: the dashboard in Manual or Page Refresh mode
DashboardStatic ==
  LET ss == initialize_session_state(session_state)
  IN /\ ss.logged_in
     /\ \E fac \in Facilities :
          session_state' = stop_streaming_data(SetKey(ss, "selected_facility", fac))
     /\ view' = "Dashboard"
     /\ script' = "idle"
     /\ \E mode \in {"Manual", "Page Refresh"} : entered' = <<mode>>
     /\ UNCHANGED <<stream_data_queue, threads, reqVars, cacheVars, alertVars>>

\* app.py lines 195-197, 117 and 137, with streaming.start_streaming_data
\* finding the flag set: nothing is started, the run enters the display loop
DashboardStreamingOn ==
  LET ss == initialize_session_state(session_state)
  IN /\ ss.logged_in
     /\ ss.streaming_active
     /\ \E fac \in Facilities : session_state' = SetKey(ss, "selected_facility", fac)
     /\ view' = "Dashboard"
     /\ script' = "loop"
     /\ entered' = <<"Real-time Streaming">>
     /\ UNCHANGED <<stream_data_queue, threads, reqVars, cacheVars, alertVars>>

\* the same run with the flag clear: start_streaming_data sets it, empties
\* the queue and starts a thread for the facility (streaming.py lines 49-62)
DashboardStreamingStart ==
  LET ss == initialize_session_state(session_state)
      t == Cardinality(Born) + 1
  IN /\ ss.logged_in
     /\ ~ss.streaming_active
     /\ t <= MaxThreads
     /\ \E fac \in Facilities :
          /\ session_state' = SetKey(SetKey(ss, "selected_facility", fac),
                                     "streaming_active", TRUE)
          /\ threads' = [threads EXCEPT ![t] = [pc |-> "check", fac |-> fac]]
     /\ stream_data_queue' = <<>>
     /\ view' = "Dashboard"
     /\ script' = "loop"
     /\ entered' = <<"Real-time Streaming">>
     /\ UNCHANGED <<reqVars, cacheVars, alertVars>>

\* app.py lines 128-131: "Stop Real-time Updates" pressed; the run it starts
\* finds the flag set at line 117, then stops streaming and reruns
StopClickRun ==
  LET ss == initialize_session_state(session_state)
  IN /\ ss.logged_in
     /\ ss.streaming_active
     /\ \E fac \in Facilities :
          session_state' = stop_streaming_data(SetKey(ss, "selected_facility", fac))
     /\ view' = "Dashboard"
     /\ script' = "idle"
     /\ entered' = <<"Real-time Streaming", "Stop Real-time Updates">>
     /\ UNCHANGED <<stream_data_queue, threads, reqVars, cacheVars, alertVars>>

\* app.py lines 137-141: the display loop takes the oldest item
ConsumerGet ==
  /\ script = "loop"
  /\ session_state.streaming_active
  /\ stream_data_queue # <<>>
  /\ stream_data_queue' = Tail(stream_data_queue)
  /\ UNCHANGED <<session_state, threads, script, view, entered, reqVars, cacheVars, alertVars>>

\* streaming.py line 18: the loop condition; reading a dropped key raises
\* outside the try block and ends the thread
ThreadCheck(t) ==
  /\ threads[t].pc = "check"
  /\ threads' = [threads EXCEPT ![t].pc =
                   IF "streaming_active" \notin DOMAIN session_state THEN "crashed"
                   ELSE IF session_state.streaming_active THEN "fetch"
                   ELSE "exited"]
  /\ UNCHANGED <<session_state, stream_data_queue, script, view, entered, reqVars, cacheVars, alertVars>>

\* streaming.py lines 20-32: both fetches return, the item is queued, the
\* thread sleeps for the interval
ThreadPut(t) ==
  /\ threads[t].pc = "fetch"
  /\ Len(stream_data_queue) < MaxQueue
  /\ stream_data_queue' = Append(stream_data_queue, threads[t].fac)
  /\ threads' = [threads EXCEPT ![t].pc = "sleep"]
  /\ UNCHANGED <<session_state, script, view, entered, reqVars, cacheVars, alertVars>>

\* streaming.py lines 33-35: a fetch raises, the thread sleeps 5 s
ThreadFetchRaises(t) ==
  /\ threads[t].pc = "fetch"
  /\ threads' = [threads EXCEPT ![t].pc = "retry"]
  /\ UNCHANGED <<session_state, stream_data_queue, script, view, entered, reqVars, cacheVars, alertVars>>

\* variant of the loop: the flag is not tested again after a sleep
ThreadWake_NoTest(t) ==
  /\ threads[t].pc \in {"sleep", "retry"}
  /\ threads' = [threads EXCEPT ![t].pc = "fetch"]
  /\ UNCHANGED <<session_state, stream_data_queue, script, view, entered, reqVars, cacheVars, alertVars>>

\* the sleep of line 32 or 35 ends
ThreadWake(t) ==
  /\ threads[t].pc \in {"sleep", "retry"}
  /\ threads' = [threads EXCEPT ![t].pc = "check"]
  /\ UNCHANGED <<session_state, stream_data_queue, script, view, entered, reqVars, cacheVars, alertVars>>

NextApp ==
  \/ LoginPageRun
  \/ LoginClickRun
  \/ LogoutRun
  \/ PageRun
  \/ DashboardFetchFails
  \/ DashboardStatic
  \/ DashboardStreamingOn
  \/ DashboardStreamingStart
  \/ StopClickRun
  \/ ConsumerGet
  \/ \E t \in 1..MaxThreads : ThreadCheck(t)
  \/ \E t \in 1..MaxThreads : ThreadPut(t)
  \/ \E t \in 1..MaxThreads : ThreadFetchRaises(t)
  \/ \E t \in 1..MaxThreads : ThreadWake(t)

SpecApp == InitApp /\ [][NextApp]_vars

\* ---- the streaming functions under any order of their calls ----
\* the facility of the thread the latest start_streaming_data started
LatestFac == IF Born = {} THEN "None" ELSE threads[Cardinality(Born)].fac

\* a logged-in session whose first dashboard run has ended
InitStream ==
  /\ API_KEY = "key"
  /\ HAZARD_THRESHOLDS = ShippedThresholds
  /\ FORECAST_HOURS = 1
  /\ pollutant = "o3"
  /\ pc = "start"
  /\ df = <<>>
  /\ series = <<>>
  /\ resampled = FALSE
  /\ fitCalls = 0
  /\ res = "none"
  /\ fitError = "none"
  /\ forecastCalls = 0
  /\ fc_index = <<>>
  /\ fc_mean = <<>>
  /\ conf = <<>>
  /\ out = <<>>
  /\ exc = "none"
  /\ now = 0
  /\ cache = <<>>
  /\ req = <<>>
  /\ session_state = [initialize_session_state(<<>>) EXCEPT !.logged_in = TRUE, !.role = "Admin"]
  /\ stream_data_queue = <<>>
  /\ threads = [t \in 1..MaxThreads |-> [pc |-> "unborn", fac |-> "None"]]
  /\ script = "idle"
  /\ view = "Dashboard"
  /\ entered = <<>>
  /\ mails = <<>>

\* streaming.start_streaming_data(lat, lon, interval), lines 49-63, followed
\* by the display loop of the run that called it
StartCall ==
  LET t == Cardinality(Born) + 1
  IN /\ \E fac \in Facilities :
          IF session_state.streaming_active
          THEN UNCHANGED <<session_state, stream_data_queue, threads>>
          ELSE /\ t <= MaxThreads
               /\ session_state' = SetKey(session_state, "streaming_active", TRUE)
               /\ stream_data_queue' = <<>>
               /\ threads' = [threads EXCEPT ![t] = [pc |-> "check", fac |-> fac]]
     /\ script' = "loop"
     /\ UNCHANGED <<view, entered, reqVars, cacheVars, alertVars>>

\* streaming.stop_streaming_data(), lines 65-67, called by a run that
\* replaces the one in the display loop
StopCall ==
  /\ session_state' = stop_streaming_data(session_state)
  /\ script' = "idle"
  /\ UNCHANGED <<stream_data_queue, threads, view, entered, reqVars, cacheVars, alertVars>>

NextStream ==
  \/ StartCall
  \/ StopCall
  \/ ConsumerGet
  \/ \E t \in 1..MaxThreads : ThreadCheck(t)
  \/ \E t \in 1..MaxThreads : ThreadPut(t)
  \/ \E t \in 1..MaxThreads : ThreadFetchRaises(t)
  \/ \E t \in 1..MaxThreads : ThreadWake(t)

SpecStream == InitStream /\ [][NextStream]_vars

\* fair scheduling of the threads; a fetch ends, with an item or an exception
ThreadFairness ==
  \A t \in 1..MaxThreads :
    /\ WF_vars(ThreadCheck(t))
    /\ WF_vars(ThreadPut(t) \/ ThreadFetchRaises(t))
    /\ WF_vars(ThreadWake(t))

SpecStreamFair == SpecStream /\ ThreadFairness

\* ---- the alert e-mail of the dashboard ----
\* st.session_state.get(k, default)
Get(ss, k, default) == IF k \in DOMAIN ss THEN ss[k] ELSE default

\* ui.py lines 136-140: email_service.py is part of the program, the import succeeds
email_service_available == TRUE

\* how a call of email_service.send_email_alert can end: credentials missing,
\* an exception before send_message, send_message and quit both done, or
\* send_message done and quit raising inside the same try block
SendOutcomes == {"no credentials", "raises before send", "sent", "sent, quit raises"}

\* server.send_message(msg) returned: the server took the e-mail
Delivered(o) == o \in {"sent", "sent, quit raises"}

\* the value send_email_alert returns
send_email_alert(o) == o = "sent"

\* ui.display_alert_modal for a non-empty list of exceedances: the session
\* state and the e-mails after the call.  auto is the checkbox, press the
\* send button, o1 and o2 how the manual and the automatic send end.
display_alert_modal(ss, ms, auto, press, o1, o2) ==
  LET m1 == IF press /\ email_service_available /\ Delivered(o1)
            THEN Append(ms, "manual") ELSE ms
      s1 == SetKey(ss, "auto_send_alerts", auto)
  IN IF Get(s1, "auto_send_alerts", FALSE) /\ ~Get(s1, "alert_sent", FALSE)
     THEN IF email_service_available
          THEN [ss |-> IF send_email_alert(o2) THEN SetKey(s1, "alert_sent", TRUE) ELSE s1,
                mails |-> IF Delivered(o2) THEN Append(m1, "auto") ELSE m1]
          ELSE [ss |-> SetKey(s1, "alert_sent", TRUE), mails |-> m1]
     ELSE [ss |-> s1, mails |-> m1]

InitAlert ==
  /\ API_KEY = "key"
  /\ HAZARD_THRESHOLDS = ShippedThresholds
  /\ FORECAST_HOURS = 1
  /\ pollutant = "o3"
  /\ pc = "start"
  /\ df = <<>>
  /\ series = <<>>
  /\ resampled = FALSE
  /\ fitCalls = 0
  /\ res = "none"
  /\ fitError = "none"
  /\ forecastCalls = 0
  /\ fc_index = <<>>
  /\ fc_mean = <<>>
  /\ conf = <<>>
  /\ out = <<>>
  /\ exc = "none"
  /\ now = 0
  /\ cache = <<>>
  /\ req = <<>>
  /\ session_state = <<>>
  /\ stream_data_queue = <<>>
  /\ threads = [t \in 1..MaxThreads |-> [pc |-> "unborn", fac |-> "None"]]
  /\ script = "idle"
  /\ view = "none"
  /\ entered = <<>>
  /\ mails = <<>>

\* app.py lines 98-101 and 198-205: a dashboard run in Manual or Page Refresh
\* mode whose current values exceed a threshold shows the alert
DashboardAlertRun ==
  LET ss == initialize_session_state(session_state)
  IN /\ ss.logged_in
     /\ \E fac \in Facilities, auto \in BOOLEAN, press \in BOOLEAN,
           o1 \in SendOutcomes, o2 \in SendOutcomes, mode \in {"Manual", "Page Refresh"} :
          LET r == display_alert_modal(SetKey(ss, "selected_facility", fac), mails,
                                       auto, press, o1, o2)
          IN /\ Len(r.mails) <= MaxMails
             /\ session_state' = stop_streaming_data(r.ss)
             /\ mails' = r.mails
             /\ entered' = <<mode, "alert", auto, press>>
     /\ view' = "Dashboard"
     /\ script' = "idle"
     /\ UNCHANGED <<stream_data_queue, threads, reqVars, cacheVars>>

NextAlert ==
  \/ LoginPageRun
  \/ LoginClickRun
  \/ LogoutRun
  \/ PageRun
  \/ DashboardStatic
  \/ DashboardAlertRun

SpecAlert == InitAlert /\ [][NextAlert]_vars

\* ---- properties ----
Last(s) == s[Len(s)]

\* the history fetch returned a frame to render_forecast
Fetched == pc # "start" /\ exc \notin {"ConnectionError", "Timeout", "HTTPError"}

\* the request ran to the end of render_forecast and showed a hazard banner
HazardShown == pc = "done" /\ fc_mean # <<>>

Banner == Last(out)

Shown(kind) == \E i \in 1..Len(out) : out[i].kind = kind

\* forecast steps whose point estimate is above the number x
StepsAbove(x) == {i \in 1..Len(fc_mean) : fc_mean[i] > x}

\* the banner names exactly the instants of the steps in `steps`, in forecast order
BannerListsExactly(steps) ==
  /\ Banner.kind = "error"
  /\ Len(Banner.times) = Cardinality(steps)
  /\ {Banner.times[k] : k \in 1..Len(Banner.times)} = {fc_index[i] : i \in steps}
  /\ \A k \in 1..(Len(Banner.times) - 1) : Banner.times[k] < Banner.times[k + 1]

\* the banner is what an evaluation against the number x has to show
EvaluatedAgainst(x) ==
  IF StepsAbove(x) = {} THEN Banner.kind = "success" ELSE BannerListsExactly(StepsAbove(x))

\* C1: whenever the selected pollutant has an entry in HAZARD_THRESHOLDS, the
\* banner lists exactly the steps with mean[i] > threshold, all of them and in
\* forecast order, and is the success banner when there is none.
C1_ExactExceedances ==
  (HazardShown /\ pollutant \in DOMAIN HAZARD_THRESHOLDS)
    => EvaluatedAgainst(HAZARD_THRESHOLDS[pollutant])

\* C2: for a pollutant without an entry in HAZARD_THRESHOLDS the banner is the
\* informational "no threshold defined" one, whatever the forecast is.
C2_AbsentIsUndefined ==
  (HazardShown /\ pollutant \notin DOMAIN HAZARD_THRESHOLDS)
    => /\ Banner.kind = "info"
       /\ Banner.text = "no threshold defined"
       /\ ~Shown("success")
       /\ \A i \in 1..Len(out) : out[i].text # "exceeds"

C2_Witness ==
  /\ HazardShown
  /\ pollutant \notin DOMAIN HAZARD_THRESHOLDS
  /\ \E i \in 1..Len(fc_mean) : fc_mean[i] > 100

\* C3: a threshold of 0 is evaluated as the number 0, and the "no threshold
\* defined" banner appears only for a pollutant without an entry.
C3_ZeroIsNotAbsent ==
  HazardShown =>
    /\ (Banner.kind = "info" => pollutant \notin DOMAIN HAZARD_THRESHOLDS)
    /\ (pollutant \in DOMAIN HAZARD_THRESHOLDS /\ HAZARD_THRESHOLDS[pollutant] = 0)
         => EvaluatedAgainst(0)

\* C4: a fetched history without any record of the selected pollutant ends in
\* the data-unavailable message; the series is never resampled and no model
\* is constructed or fitted.
C4_NoTargetObservations ==
  (Fetched /\ SelectPollutant(df, pollutant) = <<>>)
    => /\ ~resampled
       /\ fitCalls = 0
       /\ pc = "done" => Banner.text = "Insufficient historical data"

\* C5: an empty frame from fetch_pollution_history ends the request with the
\* data-unavailable message, without an exception and without preparation,
\* fit, forecast or hazard evaluation.
C5_EmptyHistoryUnavailable ==
  (Fetched /\ df = <<>>)
    => /\ pc \in {"fetched", "done"}
       /\ exc = "none"
       /\ ~resampled /\ series = <<>>
       /\ fitCalls = 0 /\ forecastCalls = 0 /\ fc_mean = <<>>
       /\ pc = "done" =>
            /\ Banner = Msg("error", "Insufficient historical data", <<>>, None)
            /\ ~Shown("dataframe") /\ ~Shown("success") /\ ~Shown("info")

C5_Witness ==
  /\ pc = "done"
  /\ API_KEY # ""
  /\ df = <<>>
  /\ Banner.text = "Insufficient historical data"

\* C6: no exception leaves render_forecast.
C6_NoExceptionEscapes == exc = "none" /\ pc # "raised"

\* C7: a fit that raised ends the request with the fitting-error message that
\* carries the cause; nothing is forecast or rendered, no hazard is evaluated
\* and the fit is attempted once only.
C7_FitErrorAborts ==
  fitError # "none"
    => /\ pc = "done"
       /\ exc = "none"
       /\ Banner = Msg("error", "Model fitting error", <<>>, <<fitError>>)
       /\ fitCalls = 1
       /\ res = "none"
       /\ forecastCalls = 0 /\ fc_index = <<>> /\ fc_mean = <<>> /\ conf = <<>>
       /\ ~Shown("plotly_chart") /\ ~Shown("dataframe")
       /\ ~Shown("success") /\ ~Shown("info")

C7_Witness ==
  /\ fitError = "LinAlgError"
  /\ series # <<>>
  /\ pc = "done"

\* C8: a prepared, non-empty series with fewer than 2 * SEASON points is never
\* handed to the model: the request fails fast, without a fit.
C8_ShortSeriesNeverFitted ==
  (resampled /\ series # <<>> /\ Len(series) < 2 * SEASON)
    => /\ fitCalls = 0
       /\ res = "none"
       /\ pc \in {"prepared", "done"}

\* C9: the forecast index has FORECAST_HOURS instants, one hour apart, the
\* first one hour after the last instant of the prepared series.
C9_HorizonIndex ==
  pc \in {"forecasted", "done"} /\ forecastCalls > 0
    => /\ Len(fc_index) = FORECAST_HOURS
       /\ fc_index[1] = Last(series).t + HOUR
       /\ \A i \in 1..(Len(fc_index) - 1) : fc_index[i + 1] = fc_index[i] + HOUR

C9_Witness ==
  /\ pc = "forecasted"
  /\ Len(fc_index) >= 2
  /\ Len(series) >= 2
  /\ fc_index[2] = Last(series).t + 2 * HOUR

\* hourly buckets of the prepared series that hold a record of the pollutant
HasObservation(t) ==
  \E k \in 1..Len(df) : df[k].pollutant = pollutant /\ Floor1H(df[k].datetime) = t

\* C10: a bucket without a record holds the value of the nearest earlier
\* bucket that has one, and no bucket holds the missing marker.
C10_ForwardFill ==
  resampled =>
    \A i \in 1..Len(series) :
      /\ series[i].v # NaN
      /\ ~HasObservation(series[i].t) =>
           \E j \in 1..(i - 1) :
             /\ HasObservation(series[j].t)
             /\ \A k \in (j + 1)..i : ~HasObservation(series[k].t)
             /\ series[i].v = series[j].v

C10_Witness ==
  /\ resampled
  /\ Len(series) = 3
  /\ ~HasObservation(series[2].t)
  /\ series[1].v = <<10, 1>>
  /\ series[2].v = <<10, 1>>
  /\ series[3].v = <<20, 1>>

\* instants of the records of the selected pollutant in the fetched frame
TargetInstants == {df[k].datetime : k \in {j \in 1..Len(df) : df[j].pollutant = pollutant}}

\* C11: for a non-empty record set of the selected pollutant the prepared
\* series runs hour by hour from the bucket of the earliest record to the
\* bucket of the latest one and holds a value in every bucket, the first
\* included.
C11_RegularSeries ==
  (resampled /\ TargetInstants # {}) =>
    /\ series # <<>>
    /\ \A t \in TargetInstants : series[1].t <= t /\ t < Last(series).t + HOUR
    /\ \E t \in TargetInstants : series[1].t = Floor1H(t)
    /\ \E t \in TargetInstants : Last(series).t = Floor1H(t)
    /\ \A i \in 1..(Len(series) - 1) : series[i + 1].t = series[i].t + HOUR
    /\ \A i \in 1..Len(series) : series[i].v # NaN
    /\ series[1].v # NaN

C11_Witness ==
  /\ resampled
  /\ 1800 \in TargetInstants
  /\ 7200 \in TargetInstants
  /\ Len(series) = 3
  /\ series[1].t = 0
  /\ series[3].t = 7200

\* confidence tables the forecast could carry for the point estimates `mean`
ConfTables(mean) ==
  { [i \in 1..Len(mean) |-> <<mean[i] - w, mean[i] + w>>] : w \in ConfHalfWidths }

\* C12: the banner shown is the banner of every forecast with the same index,
\* the same point estimates and the same threshold, whatever its lower and
\* upper bounds are.
C12_PointEstimateOnly ==
  HazardShown =>
    \A ci \in ConfTables(fc_mean) :
      HazardOfFrame(HAZARD_THRESHOLDS, pollutant, DfFc(fc_index, fc_mean, ci)) = Banner

\* a shown banner where one step lies at the threshold with its upper bound
\* above it, and a second table with other bounds exists
C12_Witness ==
  /\ HazardShown
  /\ pollutant \in DOMAIN HAZARD_THRESHOLDS
  /\ \E i \in 1..Len(fc_mean) :
       /\ fc_mean[i] <= HAZARD_THRESHOLDS[pollutant]
       /\ conf[i][2] > HAZARD_THRESHOLDS[pollutant]
       /\ HAZARD_THRESHOLDS[pollutant] > 0
  /\ Banner.kind = "success"
  /\ \E ci \in ConfTables(fc_mean) : ci # conf

TerminalOutcomes ==
  { o \in {"unavailable", "fit error", "rendered"} :
      \/ o = "unavailable" /\ \E i \in 1..Len(out) : out[i].text = "Insufficient historical data"
      \/ o = "fit error" /\ \E i \in 1..Len(out) : out[i].text = "Model fitting error"
      \/ o = "rendered" /\ Shown("dataframe")
                        /\ Cardinality({i \in 1..Len(out) :
                             out[i].text \in {"exceeds", "no exceed", "no threshold defined"}}) = 1 }

\* the steps of one request happen in the order fetch, prepare, fit, forecast,
\* hazard evaluation, with one fit and one forecast at most
StepOrder ==
  /\ fitCalls <= 1 /\ forecastCalls <= 1
  /\ resampled => Fetched /\ df # <<>>
  /\ fitCalls > 0 => resampled
  /\ forecastCalls > 0 => fitCalls = 1 /\ res = "fitted" /\ fitError = "none"
  /\ fc_mean # <<>> => forecastCalls = 1
  /\ (Shown("success") \/ Shown("info") \/ Shown("dataframe")) => fc_mean # <<>>

\* C16: the steps of a request keep their order, and a request that has ended
\* has exactly one of the outcomes data unavailable, fit error, forecast
\* rendered with one hazard banner.
C16_OneOrderedOutcome ==
  /\ StepOrder
  /\ pc \in {"done", "raised"} => Cardinality(TerminalOutcomes) = 1

\* records of the selected pollutant that fall into the hour starting at t
TargetInHour(t) ==
  {k \in 1..Len(df) : df[k].pollutant = pollutant /\ Floor1H(df[k].datetime) = t}

RECURSIVE SumValues(_)
SumValues(ks) ==
  IF ks = {} THEN 0
  ELSE LET k == CHOOSE x \in ks : TRUE IN df[k].value + SumValues(ks \ {k})

\* C17: the value of every bucket that holds records of the selected pollutant
\* is the arithmetic mean of exactly those records.
C17_BucketIsMeanOfTarget ==
  resampled =>
    \A i \in 1..Len(series) :
      LET ks == TargetInHour(series[i].t)
      IN ks # {} =>
           /\ series[i].v # NaN
           /\ series[i].v[2] > 0
           /\ series[i].v[1] * Cardinality(ks) = series[i].v[2] * SumValues(ks)

C17_Witness ==
  /\ resampled
  /\ Len(series) = 1
  /\ Cardinality(TargetInHour(series[1].t)) = 2
  /\ series[1].v = <<15, 1>>

\* request r got a frame from fetch_pollution_history
GotFrame(r) == req[r].pc \in {"fetched", "done"}

\* C15 as stated: a request's frame and series are those it would get running
\* alone, i.e. from the remote source at the time of its own fetch.
C15_IndependentRequests ==
  \A r \in Requests :
    GotFrame(r) =>
      /\ req[r].df = Provider(req[r].fac, req[r].fetchedAt)
      /\ (req[r].pc = "done" /\ req[r].df # <<>>) =>
           req[r].series = PrepareSeries(Provider(req[r].fac, req[r].fetchedAt), req[r].pol)

\* instants the clock can show
ClockValues == {ClockStart + k * Tick : k \in 0..MaxClock}

\* C15 amended: the only state requests share is the cache of
\* fetch_pollution_history. The frame of a request is the remote answer for its
\* own facility taken less than TTL seconds before its fetch; its series, index
\* and banner come from that frame and its own forecast.
C15_SharedOnlyThroughCache ==
  \A r \in Requests :
    GotFrame(r) =>
      /\ \E s \in ClockValues :
           /\ s <= req[r].fetchedAt
           /\ req[r].fetchedAt - s < TTL
           /\ req[r].df = Provider(req[r].fac, s)
      /\ \A i \in 1..Len(req[r].df) : req[r].df[i].datetime <= req[r].fetchedAt
      /\ (req[r].pc = "done" /\ req[r].df # <<>>) =>
           /\ Len(req[r].series) =
                Cardinality({Floor1H(req[r].df[i].datetime) : i \in 1..Len(req[r].df)})
           /\ req[r].fc_mean # <<>> =>
                /\ req[r].fc_index[1] = Last(req[r].series).t + HOUR
                /\ Last(req[r].out).kind = "error"
                     <=> \E i \in 1..Len(req[r].fc_mean) :
                           req[r].fc_mean[i] > HAZARD_THRESHOLDS[req[r].pol]

\* the second request of a facility is served the frame the first one fetched,
\* although the source has a newer answer by then
C15_Witness ==
  /\ req[1].fac = req[2].fac
  /\ req[1].pc = "done" /\ req[2].pc = "done"
  /\ req[1].fetchedAt < req[2].fetchedAt
  /\ req[2].df = req[1].df
  /\ req[2].df # Provider(req[2].fac, req[2].fetchedAt)

\* a step in which a script run changed what the session holds or shows
RunStep == <<session_state, view, entered>>' # <<session_state, view, entered>>

\* the run of the step was started by a press of Login
LoginClicked == RunStep /\ Len(entered') = 3 /\ entered'[3]

\* C18: login lockout.  Whenever the counter exists it lies in
\* 0..MAX_LOGIN_ATTEMPTS; a press of Login with a wrong password below the
\* limit adds exactly one; and from a state whose counter is at the limit
\* no step (a press of Login with the right password included) changes the
\* counter or sets logged_in.
C18_Lockout ==
  [][LET ss == initialize_session_state(session_state)
     IN /\ "login_attempts" \in DOMAIN session_state'
             => session_state'.login_attempts \in 0..MAX_LOGIN_ATTEMPTS
        /\ (LoginClicked /\ entered'[2] # PASSWORD /\ ss.login_attempts < MAX_LOGIN_ATTEMPTS)
             => session_state'.login_attempts = ss.login_attempts + 1
        /\ ss.login_attempts >= MAX_LOGIN_ATTEMPTS
             => /\ {"login_attempts", "logged_in"} \subseteq DOMAIN session_state'
                /\ session_state'.login_attempts = ss.login_attempts
                /\ ~session_state'.logged_in]_vars

\* Login was pressed with the right password in a locked session
C18_Witness ==
  /\ "login_attempts" \in DOMAIN session_state
  /\ session_state.login_attempts = MAX_LOGIN_ATTEMPTS
  /\ ~session_state.logged_in
  /\ view = "locked"
  /\ entered \in {<<r, PASSWORD, TRUE>> : r \in Range(ROLES)}

LoginPages == {"login", "locked"}

\* C19: logged_in turns True only in a run started by a press of Login with
\* the password PASSWORD while login_attempts < MAX_LOGIN_ATTEMPTS; that step
\* sets role to the selected role, clears login_error and resets the counter
\* to 0; and a run that finds logged_in False shows only the login page.
C19_LoginOnlyByPassword ==
  [][LET ss == initialize_session_state(session_state)
         is == "logged_in" \in DOMAIN session_state' /\ session_state'.logged_in
     IN /\ (~ss.logged_in /\ is)
             => /\ LoginClicked
                /\ entered'[2] = PASSWORD
                /\ ss.login_attempts < MAX_LOGIN_ATTEMPTS
                /\ session_state'.role = entered'[1]
                /\ ~session_state'.login_error
                /\ session_state'.login_attempts = 0
        /\ (~ss.logged_in /\ RunStep) => view' \in LoginPages]_vars

\* a login that followed a failed attempt: the error flag and the counter
\* were set before it and are clear after it
C19_Witness ==
  /\ "logged_in" \in DOMAIN session_state
  /\ session_state.logged_in
  /\ view = "login"
  /\ entered \in {<<r, PASSWORD, TRUE>> : r \in Range(ROLES)}
  /\ session_state.role = entered[1]
  /\ session_state.login_attempts = 0

\* the threads inside the body of the loop of fetch_data_for_streaming
InLoop == {t \in 1..MaxThreads : threads[t].pc \in {"fetch", "sleep", "retry"}}

\* C20: at most one streaming thread executes the fetch loop at any time,
\* whatever the interleaving of start, stop and the loop.
C20_OneStreamingThread == Cardinality(InLoop) <= 1

\* C21: once start_streaming_data has emptied the queue and started its
\* thread, the item the display loop dequeues next was fetched for the
\* location of that call.
C21_OnlyCurrentLocation ==
  (script = "loop" /\ session_state.streaming_active /\ stream_data_queue # <<>>)
    => Head(stream_data_queue) = LatestFac

\* the threads that have not left the loop of fetch_data_for_streaming
Alive == {t \in 1..MaxThreads : threads[t].pc \in {"check", "fetch", "sleep", "retry"}}

\* C22: while streaming_active stays False a thread that is not inside a
\* fetch starts no further fetch, so it enqueues at most the item of the
\* iteration in progress; and if the flag stays False from some point on
\* (a stop with no later start), every thread eventually leaves its loop
\* for good, after which nothing is enqueued.
C22_StopEndsThread ==
  /\ [][\A t \in 1..MaxThreads :
          (~session_state.streaming_active /\ ~session_state'.streaming_active
             /\ threads[t].pc # "fetch") => threads'[t].pc # "fetch"]_vars
  /\ (<>[](~session_state.streaming_active)) => <>[](Alive = {})

\* a stopped session all of whose started threads have returned
C22_Witness ==
  /\ ~session_state.streaming_active
  /\ Born # {}
  /\ \A t \in Born : threads[t].pc = "exited"
  /\ stream_data_queue # <<>>

\* the last run showed a page other than the dashboard in streaming mode
NonStreamingRun ==
  \/ view \in {"Forecast", "AI Insights"}
  \/ view = "Dashboard" /\ entered \in {<<"Manual">>, <<"Page Refresh">>}

\* the last run was a Logout
LoggedOut == view = "none" /\ session_state # <<>>

\* C23: after a run of a logged-in user for the Forecast page, the AI
\* Insights page or the dashboard in Manual or Page Refresh mode (its first
\* fetch failing or not) streaming_active is False, and after Logout it is
\* not set.
C23_StreamingOnlyWhileStreamingDashboard ==
  /\ NonStreamingRun
       => "streaming_active" \in DOMAIN session_state /\ ~session_state.streaming_active
  /\ LoggedOut
       => "streaming_active" \notin DOMAIN session_state \/ ~session_state.streaming_active

\* the automatic alert e-mails among the accepted ones
AutoMails == {i \in DOMAIN mails : mails[i] = "auto"}

\* the step is a run that showed the alert
AlertShown == RunStep /\ Len(entered') = 4 /\ entered'[2] = "alert"

\* C24: at most one automatic alert e-mail is sent in a session and
\* alert_sent is set once one was sent; from a state with alert_sent set no
\* step sends one; and a run with the checkbox clear sends an e-mail only
\* through the send button.
C24_AutoAlertOnce ==
  /\ [](Cardinality(AutoMails) <= 1)
  /\ [](AutoMails # {} => Get(session_state, "alert_sent", FALSE))
  /\ [][Get(session_state, "alert_sent", FALSE) =>
          Len(SelectSeq(mails', LAMBDA m : m = "auto"))
            = Len(SelectSeq(mails, LAMBDA m : m = "auto"))]_vars
  /\ [][(mails' # mails /\ AlertShown /\ ~entered'[3]) =>
          entered'[4] /\ mails' = Append(mails, "manual")]_vars

\* the parts of C24 that do not depend on how a send ends
C24_LatchAndButton ==
  /\ [][Get(session_state, "alert_sent", FALSE) =>
          /\ Get(session_state', "alert_sent", FALSE)
          /\ Len(SelectSeq(mails', LAMBDA m : m = "auto"))
               = Len(SelectSeq(mails, LAMBDA m : m = "auto"))]_vars
  /\ [][(mails' # mails /\ AlertShown /\ ~entered'[3]) =>
          entered'[4] /\ mails' = Append(mails, "manual")]_vars

====
